---- MODULE Spec2Model ----
(***************************************************************************)
(* Drawing-snapshot autosave of the "daily" app.                           *)
(*                                                                         *)
(*   convex/todos.ts, convex/documents.ts : the owner-scoped entity store  *)
(*       (queries and mutations, each a transaction over the tables).      *)
(*   src/App.tsx DrawingEditor, src/components/DocumentEditor.tsx          *)
(*       DocumentDrawingEditor : one drawing session (load effect,         *)
(*       saveDrawing, change/blur listeners, debounce timeout, periodic    *)
(*       interval, effect cleanups).                                       *)
(*                                                                         *)
(* Three specifications share the state:                                   *)
(*   SpecBackend : any caller invokes any query or mutation.               *)
(*   Spec        : one signed-in client opens drawing sessions on an       *)
(*                 entity; a pending timer may fire at any moment; the     *)
(*                 dispatched updateDrawing calls reach the store later,   *)
(*                 in any order, or never.                                 *)
(*   SpecTimed   : the same client with browser time: timers fire when     *)
(*                 their delay has passed, in steps of TimeUnit.           *)
(***************************************************************************)
EXTENDS Integers, Sequences, FiniteSets, Bags, TLC

(***************************************************************************)
(* Bounds of the model.                                                    *)
(***************************************************************************)
MaxDrawing == 1        \* editor document states 0..MaxDrawing, 0 = empty canvas
MaxInflight == 2       \* dispatched updateDrawing calls not yet executed
MaxCalls == 3          \* queries and mutations callers invoke directly
MaxNow == 1            \* server clock values 0..MaxNow
TicksPerDay == 2       \* server clock ticks in one calendar day

(***************************************************************************)
(* Program constants.                                                      *)
(***************************************************************************)
DebounceMs == 300      \* window.setTimeout(..., 300)
IntervalMs == 3000     \* window.setInterval(..., 3000)

\* Granularity of browser time: every event happens at a multiple of it.
TimeUnit == DebounceMs \div 2

Users == {"u1", "u2"}
NoUser == "none"                 \* getAuthUserId(ctx) === null
Callers == Users \cup {NoUser}
Texts == {"a", "b"}

(***************************************************************************)
(* Strings that can sit in a drawing field.  A string is modelled by what  *)
(* JSON.parse and the `drawingData &&` test make of it:                    *)
(*   Undefined      the field is absent                                    *)
(*   Garbage        a non-empty string that is not JSON                    *)
(*   Serialize(d)   JSON.stringify of the store snapshot of document d     *)
(*   NotASnapshot   valid JSON that is no store snapshot, e.g. "{}"        *)
(***************************************************************************)
Undefined == [tag |-> "undefined", doc |-> 0]
Garbage == [tag |-> "garbage", doc |-> 0]
NotASnapshot == [tag |-> "json", doc |-> -1]
Null == [tag |-> "null", doc |-> 0]

DocStates == 0..MaxDrawing

\* JSON.stringify(editor.store.getSnapshot()) when it does not throw
Serialize(d) == [tag |-> "json", doc |-> d]

\* JSON.parse(s) throws unless s is JSON
ParseThrows(s) == s.tag # "json"
Parse(s) == s.doc
\* editor.store.loadSnapshot(x) throws on a value that is no snapshot
LoadThrows(x) == x \notin DocStates
\* JavaScript truthiness of `drawingData`
Truthy(s) == s.tag \notin {"undefined", "null"}

VARIABLES
    todos,        \* table todos: id -> document
    documents,    \* table documents: id -> document
    nextTodo,     \* next id ctx.db.insert("todos") hands out
    nextDoc,      \* next id ctx.db.insert("documents") hands out
    now,          \* server clock, Date.now()
    result,       \* what the last query or mutation returned or threw
    calls,        \* how many calls callers have invoked directly
    auth,         \* the user signed in on the client, or NoUser
    view,         \* the client's reactive query value of the entity's drawing
    sess,         \* the drawing editor component: props, refs, editor store
    timers,       \* the browser's pending timeouts and intervals
    inflight,     \* updateDrawing calls dispatched and not yet executed
    ev,           \* the step just taken and what its save attempt did
    hist,         \* bookkeeping of the session's past, read only by properties
    timed         \* TRUE: timers count down in browser time; FALSE: time is
                  \* abstracted and a pending timer may fire at any moment

storeVars == <<todos, documents, nextTodo, nextDoc, now, result>>
backendVars == <<todos, documents, nextTodo, nextDoc, now, result, calls>>
clientVars == <<auth, view, sess, timers, inflight, ev, hist, timed>>
vars == <<todos, documents, nextTodo, nextDoc, now, result, calls,
          auth, view, sess, timers, inflight, ev, hist, timed>>


(***************************************************************************)
(* The entity store: convex/todos.ts and convex/documents.ts.              *)
(***************************************************************************)
Omitted == "-"                   \* an optional argument or field left out
NoRows == [i \in {} |-> 0]

\* today.setHours(0, 0, 0, 0); today.getTime()
StartOfDay(t) == (t \div TicksPerDay) * TicksPerDay

\* the users table: getAuthUserId returns the id of a stored user
UserExists(u) == u \in Users

\* arg: the id argument of the call (0 without one); id: the id it returned
Outcome(op, caller, arg, error, rows, id) ==
    [op |-> op, caller |-> caller, arg |-> arg, error |-> error, rows |-> rows, id |-> id]

Restrict(table, ids) == [i \in ids |-> table[i]]

\* a patch that keeps a drawing already there
PatchTodoDrawingOnce(row, drawing) ==
    [row EXCEPT !.drawing = IF @ = Undefined THEN drawing ELSE @]

\* a patch that writes the optional fields of the row anew: the drawing as given,
\* the description as a new todo has it
PatchTodoDrawingAnew(row, drawing) == [row EXCEPT !.drawing = drawing, !.description = ""]
\* ctx.db.patch(id, {drawing}) on todos
PatchTodoDrawing(row, drawing) == [row EXCEPT !.drawing = drawing]

\* an ownership test that only looks for the row
TodoMissing(caller, id) == id \notin DOMAIN todos
\* the ownership test of the todos mutations: !todo || todo.userId !== userId
TodoDenied(caller, id) == id \notin DOMAIN todos \/ todos[id].userId # caller

\* a test that only looks for the document
DocMissing(caller, id) ==
    IF id \notin DOMAIN documents THEN "Document not found" ELSE "none"

\* the ownership test of the documents handlers:
\* !existingDocument, then !user || existingDocument.userId !== user._id
DocError(caller, id) ==
    IF id \notin DOMAIN documents THEN "Document not found"
    ELSE IF ~UserExists(caller) \/ documents[id].userId # caller THEN "Unauthorized"
    ELSE "none"

\* todos.list
TodosList(caller) ==
    /\ result' = IF caller = NoUser
                 THEN Outcome("todos.list", caller, 0, "none", NoRows, 0)
                 ELSE Outcome("todos.list", caller, 0, "none",
                        Restrict(todos, {i \in DOMAIN todos :
                                           /\ todos[i].userId = caller
                                           /\ todos[i].dueDate >= StartOfDay(now)}), 0)
    /\ UNCHANGED <<todos, documents, nextTodo, nextDoc, now>>

\* an insert without the identity test
TodosAddAnonymous(caller, text) ==
    /\ todos' = todos @@ (nextTodo :>
          [text |-> text, description |-> "", completed |-> FALSE,
           userId |-> caller, hidden |-> FALSE,
           dueDate |-> StartOfDay(now), drawing |-> Undefined])
    /\ nextTodo' = nextTodo + 1
    /\ result' = Outcome("todos.add", caller, 0, "none", NoRows, 0)
    /\ UNCHANGED <<documents, nextDoc, now>>
\* todos.add
TodosAdd(caller, text) ==
    /\ IF caller = NoUser
       THEN /\ result' = Outcome("todos.add", caller, 0, "Not authenticated", NoRows, 0)
            /\ UNCHANGED <<todos, nextTodo>>
       ELSE /\ todos' = todos @@ (nextTodo :>
                  [text |-> text, description |-> "", completed |-> FALSE,
                   userId |-> caller, hidden |-> FALSE,
                   dueDate |-> StartOfDay(now), drawing |-> Undefined])
            /\ nextTodo' = nextTodo + 1
            /\ result' = Outcome("todos.add", caller, 0, "none", NoRows, 0)
    /\ UNCHANGED <<documents, nextDoc, now>>

\* the common shape of the todos mutations that patch one row
TodosPatch(op, caller, id, patched) ==
    /\ IF caller = NoUser
       THEN /\ result' = Outcome(op, caller, id, "Not authenticated", NoRows, 0)
            /\ UNCHANGED todos
       ELSE IF TodoDenied(caller, id)
       THEN /\ result' = Outcome(op, caller, id, "Todo not found", NoRows, 0)
            /\ UNCHANGED todos
       ELSE /\ todos' = [todos EXCEPT ![id] = patched]
            /\ result' = Outcome(op, caller, id, "none", NoRows, 0)
    /\ UNCHANGED <<documents, nextTodo, nextDoc, now>>

\* todos.updateDrawing
TodosUpdateDrawing(caller, id, drawing) ==
    TodosPatch("todos.updateDrawing", caller, id,
               IF id \in DOMAIN todos THEN PatchTodoDrawing(todos[id], drawing) ELSE Null)

\* todos.toggleComplete
TodosToggleComplete(caller, id) ==
    TodosPatch("todos.toggleComplete", caller, id,
               IF id \in DOMAIN todos
               THEN [todos[id] EXCEPT !.completed = ~todos[id].completed] ELSE Null)

\* todos.updateText
TodosUpdateText(caller, id, text) ==
    TodosPatch("todos.updateText", caller, id,
               IF id \in DOMAIN todos THEN [todos[id] EXCEPT !.text = text] ELSE Null)

\* todos.updateDescription
TodosUpdateDescription(caller, id, description) ==
    TodosPatch("todos.updateDescription", caller, id,
               IF id \in DOMAIN todos
               THEN [todos[id] EXCEPT !.description = description] ELSE Null)

\* todos.moveToNextDay
TodosMoveToNextDay(caller, id) ==
    /\ (id \in DOMAIN todos /\ caller # NoUser /\ ~TodoDenied(caller, id))
          => todos[id].dueDate <= StartOfDay(MaxNow)
    /\ TodosPatch("todos.moveToNextDay", caller, id,
               IF id \in DOMAIN todos
               THEN [todos[id] EXCEPT !.dueDate = todos[id].dueDate + TicksPerDay] ELSE Null)

\* todos.remove
TodosRemove(caller, id) ==
    /\ IF caller = NoUser
       THEN /\ result' = Outcome("todos.remove", caller, id, "Not authenticated", NoRows, 0)
            /\ UNCHANGED todos
       ELSE IF TodoDenied(caller, id)
       THEN /\ result' = Outcome("todos.remove", caller, id, "Todo not found", NoRows, 0)
            /\ UNCHANGED todos
       ELSE /\ todos' = Restrict(todos, DOMAIN todos \ {id})
            /\ result' = Outcome("todos.remove", caller, id, "none", NoRows, 0)
    /\ UNCHANGED <<documents, nextTodo, nextDoc, now>>

\* documents.list
DocumentsList(caller) ==
    /\ result' = IF caller = NoUser
                 THEN Outcome("documents.list", caller, 0, "Not authenticated", NoRows, 0)
                 ELSE IF ~UserExists(caller)
                 THEN Outcome("documents.list", caller, 0, "User not found", NoRows, 0)
                 ELSE Outcome("documents.list", caller, 0, "none",
                        Restrict(documents,
                                 {i \in DOMAIN documents : documents[i].userId = caller}), 0)
    /\ UNCHANGED <<todos, documents, nextTodo, nextDoc, now>>

\* documents.get
DocumentsGet(caller, id) ==
    /\ result' = IF caller = NoUser
                 THEN Outcome("documents.get", caller, id, "Not authenticated", NoRows, 0)
                 ELSE IF DocError(caller, id) # "none"
                 THEN Outcome("documents.get", caller, id, DocError(caller, id), NoRows, 0)
                 ELSE Outcome("documents.get", caller, id, "none", Restrict(documents, {id}), 0)
    /\ UNCHANGED <<todos, documents, nextTodo, nextDoc, now>>

\* documents.create
DocumentsCreate(caller) ==
    /\ IF caller = NoUser
       THEN /\ result' = Outcome("documents.create", caller, 0, "Not authenticated", NoRows, 0)
            /\ UNCHANGED <<documents, nextDoc>>
       ELSE IF ~UserExists(caller)
       THEN /\ result' = Outcome("documents.create", caller, 0, "User not found", NoRows, 0)
            /\ UNCHANGED <<documents, nextDoc>>
       ELSE /\ documents' = documents @@ (nextDoc :>
                  [title |-> "Untitled Document", content |-> "", userId |-> caller,
                   createdAt |-> now, updatedAt |-> now,
                   emoji |-> Omitted, drawing |-> Undefined])
            /\ nextDoc' = nextDoc + 1
            /\ result' = Outcome("documents.create", caller, 0, "none", NoRows, nextDoc)
    /\ UNCHANGED <<todos, nextTodo, now>>

\* a replace in place of the patch: the fields not given are dropped
ReplaceDocFields(row, title, content, emoji, t) ==
    [row EXCEPT !.title = IF title = Omitted THEN @ ELSE title,
                !.content = IF content = Omitted THEN @ ELSE content,
                !.emoji = IF emoji = Omitted THEN @ ELSE emoji,
                !.updatedAt = t, !.drawing = Undefined]

\* ctx.db.patch(id, {...rest, updatedAt: Date.now()}): only the given fields change
PatchDocFields(row, title, content, emoji, t) ==
    [row EXCEPT !.title = IF title = Omitted THEN @ ELSE title,
                !.content = IF content = Omitted THEN @ ELSE content,
                !.emoji = IF emoji = Omitted THEN @ ELSE emoji,
                !.updatedAt = t]

\* a replace in place of the patch: the owner is not written back
ReplaceDocDrawing(row, drawing, t) ==
    [row EXCEPT !.drawing = drawing, !.updatedAt = t, !.userId = NoUser]

\* ctx.db.patch(args.id, {drawing: args.drawing, updatedAt: Date.now()})
PatchDocDrawing(row, drawing, t) == [row EXCEPT !.drawing = drawing, !.updatedAt = t]

\* the common shape of the documents mutations that patch one row
DocumentsPatch(op, caller, id, patched) ==
    /\ IF caller = NoUser
       THEN /\ result' = Outcome(op, caller, id, "Not authenticated", NoRows, 0)
            /\ UNCHANGED documents
       ELSE IF DocError(caller, id) # "none"
       THEN /\ result' = Outcome(op, caller, id, DocError(caller, id), NoRows, 0)
            /\ UNCHANGED documents
       ELSE /\ documents' = [documents EXCEPT ![id] = patched]
            /\ result' = Outcome(op, caller, id, "none", NoRows, 0)
    /\ UNCHANGED <<todos, nextTodo, nextDoc, now>>

\* documents.update
DocumentsUpdate(caller, id, title, content, emoji) ==
    DocumentsPatch("documents.update", caller, id,
                   IF id \in DOMAIN documents
                   THEN PatchDocFields(documents[id], title, content, emoji, now) ELSE Null)

\* documents.updateDrawing
DocumentsUpdateDrawing(caller, id, drawing) ==
    DocumentsPatch("documents.updateDrawing", caller, id,
                   IF id \in DOMAIN documents
                   THEN PatchDocDrawing(documents[id], drawing, now) ELSE Null)

\* documents.remove
DocumentsRemove(caller, id) ==
    /\ IF caller = NoUser
       THEN /\ result' = Outcome("documents.remove", caller, id, "Not authenticated", NoRows, 0)
            /\ UNCHANGED documents
       ELSE IF DocError(caller, id) # "none"
       THEN /\ result' = Outcome("documents.remove", caller, id, DocError(caller, id), NoRows, 0)
            /\ UNCHANGED documents
       ELSE /\ documents' = Restrict(documents, DOMAIN documents \ {id})
            /\ result' = Outcome("documents.remove", caller, id, "none", NoRows, 0)
    /\ UNCHANGED <<todos, nextTodo, nextDoc, now>>

\* the server clock advances
ClockTick ==
    /\ now < MaxNow
    /\ now' = now + 1
    /\ UNCHANGED <<todos, documents, nextTodo, nextDoc, result>>

(***************************************************************************)
(* The drawing session: DrawingEditor (src/App.tsx) and                    *)
(* DocumentDrawingEditor (src/components/DocumentEditor.tsx).  The two     *)
(* components are the same code over todoId / documentId; sess.kind says   *)
(* which one is mounted.  useEditor() inside <Tldraw> always yields the    *)
(* editor, so the `if (!editor) return` guards never take their branch.    *)
(***************************************************************************)
Kinds == {"todo", "document"}

\* the refs and the editor of a component that is not mounted
Unmounted(kind, id) ==
    [mounted |-> FALSE, kind |-> kind, id |-> id, editor |-> 0,
     debounceTimerRef |-> 0, initialLoadRef |-> FALSE, snapshotRef |-> Null,
     intervalId |-> 0, listening |-> FALSE]

\* the drawing field of the stored entity, undefined when there is none
Stored(kind, id) ==
    IF kind = "todo"
    THEN IF id \in DOMAIN todos THEN todos[id].drawing ELSE Undefined
    ELSE IF id \in DOMAIN documents THEN documents[id].drawing ELSE Undefined

\* the delay a timer is armed with
Delay(ms) == IF timed THEN ms ELSE 0
\* window.setTimeout / window.setInterval return a handle no pending timer has
FreshId(ts) == CHOOSE i \in 1..(Cardinality(ts) + 1) : \A t \in ts : t.id # i
SetTimer(ts, kind, ms) == ts \cup {[id |-> FreshId(ts), kind |-> kind, left |-> ms]}
\* window.clearTimeout / window.clearInterval
ClearTimer(ts, id) == {t \in ts : t.id # id}

\* a load effect that does not look at initialLoadRef
LoadRunsAgain(s, drawingData) == Truthy(drawingData)
\* the load effect: if (editor && drawingData && !initialLoadRef.current) {...}
LoadRuns(s, drawingData) == Truthy(drawingData) /\ ~s.initialLoadRef
\* a load effect that takes whatever the string holds for a snapshot
LoadUnchecked(s, drawingData) == LoadRuns(s, drawingData)
\* ... try { loadSnapshot(JSON.parse(drawingData)); initialLoadRef.current = true }
LoadSucceeds(s, drawingData) ==
    LoadRuns(s, drawingData) /\ ~ParseThrows(drawingData) /\ ~LoadThrows(Parse(drawingData))
\* a load effect that also remembers the loaded string as last persisted
LoadEffectRemembers(s, drawingData) ==
    IF LoadSucceeds(s, drawingData)
    THEN [s EXCEPT !.editor = Parse(drawingData), !.initialLoadRef = TRUE,
                   !.snapshotRef = drawingData]
    ELSE s
LoadEffect(s, drawingData) ==
    IF LoadSucceeds(s, drawingData)
    THEN [s EXCEPT !.editor = Parse(drawingData), !.initialLoadRef = TRUE]
    ELSE s

\* a save path with the comparison the wrong way round
PersistsWhenSame(snapshot, lastPersisted) == snapshot = lastPersisted
\* a save path without the comparison
AlwaysPersist(snapshot, lastPersisted) == TRUE
\* saveDrawing: if (snapshot !== snapshotRef.current)
ShouldPersist(snapshot, lastPersisted) == snapshot # lastPersisted

\* a save path that serializes the store as a new editor has it (empty), not
\* as it is now
SaveWritesEmpty(s, throws, caller) ==
    IF ~throws /\ ShouldPersist(Serialize(s.editor), s.snapshotRef)
    THEN {[kind |-> s.kind, id |-> s.id, drawing |-> Serialize(0), caller |-> caller]}
    ELSE {}
\* a save path that goes on after a failed serialization
SaveWritesUnguarded(s, throws, caller) ==
    IF ShouldPersist(Serialize(s.editor), s.snapshotRef)
    THEN {[kind |-> s.kind, id |-> s.id, drawing |-> Serialize(s.editor), caller |-> caller]}
    ELSE {}
\* saveDrawing: the updateDrawing calls it dispatches; `throws` says whether
\* JSON.stringify(editor.store.getSnapshot()) throws
SaveWrites(s, throws, caller) ==
    IF ~throws /\ ShouldPersist(Serialize(s.editor), s.snapshotRef)
    THEN {[kind |-> s.kind, id |-> s.id, drawing |-> Serialize(s.editor), caller |-> caller]}
    ELSE {}

\* a save path that leaves snapshotRef to the confirmation of the call
SaveRefOnConfirm(s, throws) == s.snapshotRef
\* saveDrawing: snapshotRef.current afterwards
SaveRef(s, throws) ==
    IF ~throws /\ ShouldPersist(Serialize(s.editor), s.snapshotRef)
    THEN Serialize(s.editor)
    ELSE s.snapshotRef

Dispatch(bag, ws) == IF ws = {} THEN bag ELSE bag (+) SetToBag(ws)

\* what a step did, for the properties: its save attempt and its load effect
Event(type, attempted, s, throws, ws, loadCalled, loaded) ==
    [type |-> type, attempted |-> attempted, threw |-> attempted /\ throws,
     wrote |-> Cardinality(ws), hadTimer |-> attempted /\ s.debounceTimerRef # 0,
     first |-> attempted /\ s.snapshotRef = Null,
     loadCalled |-> loadCalled, loaded |-> loaded, floor |-> FALSE]
Attempt(type, s, throws, ws) == Event(type, TRUE, s, throws, ws, FALSE, FALSE)
NoAttempt(type) == Event(type, FALSE, Unmounted("todo", 0), FALSE, {}, FALSE, FALSE)

Min(a, b) == IF a < b THEN a ELSE b

HistInit ==
    [writesNoEdit |-> 0, failedNoEdit |-> FALSE, loads |-> 0,
     edited |-> FALSE, burstEdits |-> 0, sinceEdit |-> 0, lastEdit |-> 0, burstFires |-> 0,
     burstCut |-> FALSE, firedDoc |-> 0, sinceAttempt |-> 0, pendingAll |-> FALSE,
     failed |-> Null, accepted |-> Undefined, intact |-> TRUE]

\* a save attempt that dispatched n writes
HistAttempt(h, throws, n) ==
    [h EXCEPT !.writesNoEdit = Min(@ + n, 2), !.failedNoEdit = @ \/ throws,
              !.sinceAttempt = 0, !.failed = IF n > 0 THEN Null ELSE @]

\* the store has executed and accepted the dispatched call w
HistAccepted(h, w) == [h EXCEPT !.accepted = w.drawing]

\* the dispatched call w failed: the store rejected it or it never arrived;
\* `failed` keeps its payload when it is the one the open session remembers in
\* snapshotRef, and `intact` (every call in flight or completed since the mount
\* is one of this session, and none of them failed) no longer holds
HistFailed(h, s, w) ==
    [h EXCEPT !.failed = IF s.mounted /\ w.kind = s.kind /\ w.id = s.id
                            /\ w.drawing = s.snapshotRef
                         THEN w.drawing ELSE @,
              !.intact = FALSE]

\* a change event of the editor; `pending` says whether the debounce timer of
\* the previous change event was still pending (the burst goes on)
HistChange(h, doc, pending) ==
    [h EXCEPT !.writesNoEdit = 0, !.failedNoEdit = FALSE,
              !.burstEdits = IF ~timed THEN 0 ELSE IF h.edited /\ pending THEN Min(@ + 1, 2) ELSE 1,
              !.edited = timed, !.sinceEdit = 0, !.lastEdit = IF timed THEN doc ELSE 0,
              !.burstCut = FALSE,
              !.burstFires = IF h.edited /\ pending THEN @ ELSE 0,
              !.firedDoc = IF h.edited /\ pending THEN @ ELSE 0]

Pending(ts, kind) == {t \in ts : t.kind = kind}
Due(ts, kind) == {t \in ts : t.kind = kind /\ t.left = 0}

\* a handleChange that starts the periodic timer afresh as well
ChangeRestartsInterval(s, ts) ==
    {IF t.kind = "interval" THEN [t EXCEPT !.left = Delay(IntervalMs)] ELSE t :
        t \in SetTimer(IF s.debounceTimerRef # 0 THEN ClearTimer(ts, s.debounceTimerRef) ELSE ts,
                       "timeout", Delay(DebounceMs))}
\* a handleChange without the clearTimeout
ChangeKeepsTimer(s, ts) == ts
\* handleChange: clearTimeout(debounceTimerRef.current) if set, then setTimeout
ChangeCleared(s, ts) ==
    IF s.debounceTimerRef # 0 THEN ClearTimer(ts, s.debounceTimerRef) ELSE ts
HandleChangeTimers(s, ts) == SetTimer(ChangeCleared(s, ts), "timeout", Delay(DebounceMs))
HandleChangeRef(s, ts) == FreshId(ChangeCleared(s, ts))

\* a handleBlur without the clearTimeout
BlurKeepsTimer(s, ts) == ts
\* handleBlur: clearTimeout(debounceTimerRef.current) and null it if set
HandleBlurTimers(s, ts) ==
    IF s.debounceTimerRef # 0 THEN ClearTimer(ts, s.debounceTimerRef) ELSE ts

\* cleanups without the clearTimeout
CleanupKeepsTimeout(s, ts) == ClearTimer(ts, s.intervalId)
\* cleanups without the clearInterval
CleanupKeepsInterval(s, ts) ==
    IF s.debounceTimerRef # 0 THEN ClearTimer(ts, s.debounceTimerRef) ELSE ts
\* the cleanups of the two effects, after the final saveDrawing():
\* clearTimeout(debounceTimerRef.current) if set; clearInterval(intervalId)
CleanupTimers(s, ts) ==
    ClearTimer(IF s.debounceTimerRef # 0 THEN ClearTimer(ts, s.debounceTimerRef) ELSE ts,
               s.intervalId)

\* a periodic timer armed with setTimeout: it ticks once
IntervalOnce(ts, t) == ts \ {t}
\* the interval's callback, and the timer set after one of its ticks
IntervalRearmed(ts, t) == (ts \ {t}) \cup {[t EXCEPT !.left = Delay(IntervalMs)]}

\* a save path that awaits the confirmation of the previous call
AwaitsConfirmation(ws) == ws = {} \/ inflight = EmptyBag
\* the bound on calls in flight
CanDispatch(ws) == ws = {} \/ BagCardinality(inflight) < MaxInflight

(***************************************************************************)
(* Steps of the client.                                                    *)
(***************************************************************************)
\* the component mounts: load effect, then the listeners, then the interval
Mount ==
    /\ ~sess.mounted
    /\ auth # NoUser
    /\ LET s0 == [Unmounted(sess.kind, sess.id) EXCEPT !.mounted = TRUE]
           s1 == LoadEffect(s0, view)
       IN /\ sess' = [s1 EXCEPT !.listening = TRUE, !.intervalId = FreshId(timers)]
          /\ timers' = SetTimer(timers, "interval", Delay(IntervalMs))
          /\ ev' = Event("mount", FALSE, s0, FALSE, {},
                         LoadRuns(s0, view) /\ ~ParseThrows(view), LoadSucceeds(s0, view))
          /\ hist' = [HistInit EXCEPT !.loads = IF LoadSucceeds(s0, view) THEN 1 ELSE 0,
                                      !.accepted = hist.accepted,
                                      !.intact = (inflight = EmptyBag)]
    /\ UNCHANGED <<auth, view, inflight, timed>>
    /\ UNCHANGED backendVars

\* editor 'change' event: the store now holds document d (d = the old one for
\* a change that leaves the document records alone)
Edit(d) ==
    /\ sess.mounted /\ sess.listening
    /\ sess' = [sess EXCEPT !.editor = d,
                            !.debounceTimerRef = HandleChangeRef(sess, timers)]
    /\ timers' = HandleChangeTimers(sess, timers)
    /\ ev' = NoAttempt("edit")
    /\ hist' = HistChange(hist, d, sess.debounceTimerRef # 0)
    /\ UNCHANGED <<auth, view, inflight, timed>>
    /\ UNCHANGED backendVars

\* window 'blur' event: handleBlur
Blur(throws) ==
    /\ sess.mounted /\ sess.listening
    /\ LET ws == SaveWrites(sess, throws, auth)
       IN /\ CanDispatch(ws)
          /\ sess' = [sess EXCEPT !.debounceTimerRef = 0,
                                  !.snapshotRef = SaveRef(sess, throws)]
          /\ timers' = HandleBlurTimers(sess, timers)
          /\ inflight' = Dispatch(inflight, ws)
          /\ ev' = Attempt("blur", sess, throws, ws)
          /\ hist' = [HistAttempt(hist, throws, Cardinality(ws)) EXCEPT
                        !.burstCut = IF timed /\ sess.debounceTimerRef # 0 THEN TRUE ELSE @,
                        !.pendingAll = FALSE]
    /\ UNCHANGED <<auth, view, timed>>
    /\ UNCHANGED backendVars

\* the debounce timeout fires: saveDrawing(); debounceTimerRef.current = null
DebounceFire(throws) ==
    \E t \in Due(timers, "timeout") :
        LET ws == SaveWrites(sess, throws, auth)
        IN /\ CanDispatch(ws)
           /\ sess' = [sess EXCEPT !.debounceTimerRef = 0,
                                   !.snapshotRef = SaveRef(sess, throws)]
           /\ timers' = timers \ {t}
           /\ inflight' = Dispatch(inflight, ws)
           /\ ev' = Attempt("debounce", sess, throws, ws)
           /\ hist' = [HistAttempt(hist, throws, Cardinality(ws)) EXCEPT
                         !.burstFires = IF timed THEN Min(@ + 1, 2) ELSE @,
                         !.firedDoc = IF timed THEN sess.editor ELSE @,
                         !.pendingAll = FALSE]
           /\ UNCHANGED <<auth, view, timed>>
           /\ UNCHANGED backendVars

\* the interval ticks: saveDrawing()
IntervalFire(throws) ==
    \E t \in Due(timers, "interval") :
        LET ws == SaveWrites(sess, throws, auth)
            pending == timed /\ Pending(timers, "timeout") # {}
        IN /\ CanDispatch(ws)
           /\ sess' = [sess EXCEPT !.snapshotRef = SaveRef(sess, throws)]
           /\ timers' = IntervalRearmed(timers, t)
           /\ inflight' = Dispatch(inflight, ws)
           /\ ev' = [Attempt("interval", sess, throws, ws) EXCEPT
                       !.floor = pending /\ hist.pendingAll]
           /\ hist' = [HistAttempt(hist, throws, Cardinality(ws)) EXCEPT !.pendingAll = pending]
           /\ UNCHANGED <<auth, view, timed>>
           /\ UNCHANGED backendVars

\* browser time advances by one unit; a due timer runs first
Tick ==
    /\ timed
    /\ sess.mounted \/ timers # {}
    /\ \A t \in timers : t.left > 0
    /\ timers' = {[t EXCEPT !.left = @ - TimeUnit] : t \in timers}
    /\ ev' = NoAttempt("tick")
    /\ hist' = [hist EXCEPT
                  !.sinceEdit = IF hist.edited THEN Min(@ + TimeUnit, DebounceMs) ELSE @,
                  !.sinceAttempt = Min(@ + TimeUnit, IntervalMs + TimeUnit),
                  !.pendingAll = @ /\ Pending(timers, "timeout") # {}]
    /\ UNCHANGED <<auth, view, sess, inflight, timed>>
    /\ UNCHANGED backendVars

\* cleanups without the final saveDrawing()
TeardownNoFlush(throws, caller) ==
    /\ sess' = Unmounted(sess.kind, sess.id)
    /\ timers' = CleanupTimers(sess, timers)
    /\ inflight' = inflight
    /\ ev' = Attempt("teardown", sess, throws, {})
    /\ hist' = [HistAttempt(hist, throws, 0) EXCEPT !.pendingAll = FALSE]
\* the cleanups of the listener effect and of the interval effect, run when the
\* component unmounts; the dispatched call carries `caller`
Teardown(throws, caller) ==
    LET ws == SaveWrites(sess, throws, caller)
    IN /\ CanDispatch(ws)
       /\ sess' = Unmounted(sess.kind, sess.id)
       /\ timers' = CleanupTimers(sess, timers)
       /\ inflight' = Dispatch(inflight, ws)
       /\ ev' = Attempt("teardown", sess, throws, ws)
       /\ hist' = [HistAttempt(hist, throws, Cardinality(ws)) EXCEPT !.pendingAll = FALSE]

\* the drawing panel is closed
Unmount(throws) ==
    /\ sess.mounted
    /\ Teardown(throws, auth)
    /\ UNCHANGED <<auth, view, timed>>
    /\ UNCHANGED backendVars

\* the user signs out: <Authenticated> drops its children.  Whether the
\* connection still carries the identity when the cleanup runs is decided
\* inside the auth library: both orders are kept.
SignOut(throws, caller) ==
    /\ auth # NoUser
    /\ caller \in {auth, NoUser}
    /\ auth' = NoUser
    /\ IF sess.mounted
       THEN Teardown(throws, caller)
       ELSE /\ ~throws /\ caller = NoUser
            /\ ev' = NoAttempt("signout")
            /\ UNCHANGED <<sess, timers, inflight, hist>>
    /\ UNCHANGED <<view, timed>>
    /\ UNCHANGED backendVars

\* the reactive query pushes the stored drawing to the client; with the
\* component mounted the load effect runs again ([editor, drawingData]), and a
\* loadSnapshot changes the store, so the editor emits 'change'
QueryUpdate ==
    /\ view # Stored(sess.kind, sess.id)
    /\ view' = Stored(sess.kind, sess.id)
    /\ IF sess.mounted /\ LoadSucceeds(sess, view')
       THEN /\ sess' = [LoadEffect(sess, view') EXCEPT
                          !.debounceTimerRef = HandleChangeRef(sess, timers)]
            /\ timers' = HandleChangeTimers(sess, timers)
            /\ hist' = [HistChange(hist, Parse(view'), sess.debounceTimerRef # 0) EXCEPT
                          !.loads = Min(@ + 1, 2)]
       ELSE UNCHANGED <<sess, timers, hist>>
    /\ ev' = Event("query", FALSE, sess, FALSE, {},
                   sess.mounted /\ LoadRuns(sess, view') /\ ~ParseThrows(view'),
                   sess.mounted /\ LoadSucceeds(sess, view'))
    /\ UNCHANGED <<auth, inflight, timed>>
    /\ UNCHANGED backendVars

\* the store executes a dispatched call
Deliver(w) ==
    /\ w \in BagToSet(inflight)
    /\ inflight' = inflight (-) SetToBag({w})
    /\ IF w.kind = "todo"
       THEN TodosUpdateDrawing(w.caller, w.id, w.drawing)
       ELSE DocumentsUpdateDrawing(w.caller, w.id, w.drawing)
    /\ ev' = NoAttempt("deliver")
    /\ hist' = IF result'.error = "none" THEN HistAccepted(hist, w)
                                         ELSE HistFailed(hist, sess, w)
    /\ UNCHANGED <<auth, view, sess, timers, timed, calls>>

\* a failure handler that forgets the last-persisted value, so that the next
\* attempt sends the state again
LoseResets(w) ==
    /\ w \in BagToSet(inflight)
    /\ inflight' = inflight (-) SetToBag({w})
    /\ ev' = NoAttempt("lose")
    /\ hist' = HistFailed(hist, sess, w)
    /\ sess' = IF sess.mounted THEN [sess EXCEPT !.snapshotRef = Null] ELSE sess
    /\ UNCHANGED <<auth, view, timers, timed>>
    /\ UNCHANGED backendVars
\* a dispatched call fails without effect on the store: it never arrives, or
\* the backend fails it
Lose(w) ==
    /\ w \in BagToSet(inflight)
    /\ inflight' = inflight (-) SetToBag({w})
    /\ ev' = NoAttempt("lose")
    /\ hist' = HistFailed(hist, sess, w)
    /\ UNCHANGED <<auth, view, sess, timers, timed>>
    /\ UNCHANGED backendVars

(***************************************************************************)
(* Initial states and specifications.                                      *)
(***************************************************************************)
TodoRow(owner, drawing) ==
    [text |-> "a", description |-> "", completed |-> FALSE, userId |-> owner,
     hidden |-> FALSE, dueDate |-> 0, drawing |-> drawing]
DocRow(owner, drawing) ==
    [title |-> "Untitled Document", content |-> "", userId |-> owner,
     createdAt |-> 0, updatedAt |-> 0, emoji |-> Omitted, drawing |-> drawing]

\* what the drawing field of the entity holds when the client starts: nothing,
\* a saved snapshot, or a string some earlier call left there
InitDrawings == {Undefined, Garbage, NotASnapshot, Serialize(1)}

\* one entity of user u1, who is signed in and has its data on screen
InitClient(isTimed, drawings) ==
    \E kind \in Kinds, d \in drawings :
        /\ todos = IF kind = "todo" THEN (1 :> TodoRow("u1", d)) ELSE NoRows
        /\ documents = IF kind = "document" THEN (1 :> DocRow("u1", d)) ELSE NoRows
        /\ nextTodo = IF kind = "todo" THEN 2 ELSE 1
        /\ nextDoc = IF kind = "document" THEN 2 ELSE 1
        /\ now = 0
        /\ result = Outcome("none", NoUser, 0, "none", NoRows, 0)
        /\ calls = 0
        /\ auth = "u1"
        /\ view = d
        /\ sess = Unmounted(kind, 1)
        /\ timers = {}
        /\ inflight = EmptyBag
        /\ ev = NoAttempt("init")
        /\ hist = [HistInit EXCEPT !.accepted = d]
        /\ timed = isTimed

Init == InitClient(FALSE, InitDrawings)

Next ==
    \/ Mount
    \/ \E d \in DocStates : Edit(d)
    \/ \E throws \in BOOLEAN : Blur(throws)
    \/ \E throws \in BOOLEAN : DebounceFire(throws)
    \/ \E throws \in BOOLEAN : IntervalFire(throws)
    \/ \E throws \in BOOLEAN : Unmount(throws)
    \/ \E throws \in BOOLEAN, caller \in Callers : SignOut(throws, caller)
    \/ QueryUpdate
    \/ \E w \in BagToSet(inflight) : Deliver(w)
    \/ \E w \in BagToSet(inflight) : Lose(w)

Spec == Init /\ [][Next]_vars

\* Fair executions of a signed-in client, from an entity that has no drawing
\* yet: the event loop runs a timer callback that is due, and the store
\* executes a dispatched call in the end; the periodic callback is taken with
\* a serialization that succeeds
InitLive == InitClient(FALSE, {Undefined})

NextLive ==
    \/ Mount
    \/ \E d \in DocStates : Edit(d)
    \/ \E throws \in BOOLEAN : Blur(throws)
    \/ \E throws \in BOOLEAN : DebounceFire(throws)
    \/ \E throws \in BOOLEAN : IntervalFire(throws)
    \/ \E throws \in BOOLEAN : Unmount(throws)
    \/ QueryUpdate
    \/ \E w \in BagToSet(inflight) : Deliver(w)

SpecLive ==
    /\ InitLive /\ [][NextLive]_vars
    /\ WF_vars(IntervalFire(FALSE))
    /\ WF_vars(\E w \in BagToSet(inflight) : Deliver(w))

\* browser time: between two instants the store executes what was dispatched
InitTimed == InitClient(TRUE, {Undefined, Serialize(1)})

NextTimed ==
    \/ /\ inflight = EmptyBag
       /\ \/ Mount
          \/ \E d \in DocStates : Edit(d)
          \/ \E throws \in BOOLEAN : Blur(throws)
          \/ \E throws \in BOOLEAN : DebounceFire(throws)
          \/ \E throws \in BOOLEAN : IntervalFire(throws)
          \/ \E throws \in BOOLEAN : Unmount(throws)
          \/ Tick
    \/ \E w \in BagToSet(inflight) : Deliver(w)

SpecTimed == InitTimed /\ [][NextTimed]_vars

(***************************************************************************)
(* The entity store on its own: callers invoke the queries and mutations   *)
(* of convex/todos.ts and convex/documents.ts in any order.                *)
(***************************************************************************)
\* the strings callers pass as a drawing
CallDrawings == {Garbage, Serialize(1)}
\* the ids callers pass: every id handed out so far, and 0, which never was
TodoArgs == 0..(nextTodo - 1)
DocArgs == 0..(nextDoc - 1)

InitBackend ==
    /\ todos = NoRows
    /\ documents = NoRows
    /\ nextTodo = 1
    /\ nextDoc = 1
    /\ now = 0
    /\ result = Outcome("none", NoUser, 0, "none", NoRows, 0)
    /\ calls = 0
    /\ auth = NoUser
    /\ view = Undefined
    /\ sess = Unmounted("todo", 0)
    /\ timers = {}
    /\ inflight = EmptyBag
    /\ ev = NoAttempt("init")
    /\ hist = HistInit
    /\ timed = FALSE

Call(op) ==
    /\ calls < MaxCalls
    /\ calls' = calls + 1
    /\ op
    /\ UNCHANGED clientVars

NextBackend ==
    \/ \E c \in Callers : Call(TodosList(c))
    \/ \E c \in Callers, text \in Texts : Call(TodosAdd(c, text))
    \/ \E c \in Callers, id \in TodoArgs, d \in CallDrawings : Call(TodosUpdateDrawing(c, id, d))
    \/ \E c \in Callers, id \in TodoArgs : Call(TodosToggleComplete(c, id))
    \/ \E c \in Callers, id \in TodoArgs, text \in Texts : Call(TodosUpdateText(c, id, text))
    \/ \E c \in Callers, id \in TodoArgs, text \in Texts : Call(TodosUpdateDescription(c, id, text))
    \/ \E c \in Callers, id \in TodoArgs : Call(TodosRemove(c, id))
    \/ \E c \in Callers, id \in TodoArgs : Call(TodosMoveToNextDay(c, id))
    \/ \E c \in Callers : Call(DocumentsList(c))
    \/ \E c \in Callers, id \in DocArgs : Call(DocumentsGet(c, id))
    \/ \E c \in Callers : Call(DocumentsCreate(c))
    \/ \E c \in Callers, id \in DocArgs, title \in {Omitted, "a"}, content \in {Omitted, "a"},
          emoji \in {Omitted, "a"} : Call(DocumentsUpdate(c, id, title, content, emoji))
    \/ \E c \in Callers, id \in DocArgs : Call(DocumentsRemove(c, id))
    \/ \E c \in Callers, id \in DocArgs, d \in CallDrawings : Call(DocumentsUpdateDrawing(c, id, d))
    \/ ClockTick /\ UNCHANGED <<calls, auth, view, sess, timers, inflight, ev, hist, timed>>

SpecBackend == InitBackend /\ [][NextBackend]_vars

(***************************************************************************)
(* Properties.                                                             *)
(***************************************************************************)
\* the step dispatched exactly one updateDrawing call, for the entity of
\* session s, carrying the serialized document s.editor
OneWriteOf(s, before, after) ==
    \E w \in BagToSet(after) :
        /\ after = before (+) SetToBag({w})
        /\ w.kind = s.kind /\ w.id = s.id
        /\ w.drawing = Serialize(s.editor)

\* C1 (no-op suppression): a save attempt (debounce, interval, blur or
\* teardown) whose serialized snapshot equals snapshotRef dispatches no write;
\* hence the save attempts that follow one another without a change event
\* dispatch at most one write between them: once the first has written, the
\* next ones (a teardown flush after a debounce save included) write nothing.
C1_NoOpSuppression ==
    /\ [][(ev'.attempted /\ ~ev'.threw
              /\ Serialize(sess.editor) = sess.snapshotRef)
             => (inflight' = inflight /\ ev'.wrote = 0)]_vars
    /\ [][(ev'.attempted /\ hist.writesNoEdit = 1)
             => (inflight' = inflight /\ hist'.writesNoEdit = 1)]_vars
    /\ [](hist.writesNoEdit <= 1)
\* a teardown flush that wrote nothing because an earlier attempt had written
\* the same content
C1_Witness ==
    /\ ev.type = "teardown" /\ ev.attempted /\ ~ev.threw /\ ev.wrote = 0
    /\ hist.writesNoEdit = 1

\* C2 (debounce coalescing): in a burst of change events, each less than
\* DebounceMs after the one before, a single debounce timeout is pending, due
\* DebounceMs after the last change event; it fires exactly once for the
\* burst, at that moment, and serializes the document of the last change
\* event.  (A blur or a teardown before that moment takes the timer's place.)
C2_DebounceCoalescing ==
    (sess.mounted /\ hist.edited /\ ~hist.burstCut) =>
        LET P == Pending(timers, "timeout") IN
        \/ /\ hist.burstFires = 0
           /\ Cardinality(P) = 1
           /\ \A t \in P : t.id = sess.debounceTimerRef
                           /\ t.left = DebounceMs - hist.sinceEdit
        \/ /\ hist.burstFires = 1
           /\ P = {} /\ sess.debounceTimerRef = 0
           /\ hist.sinceEdit = DebounceMs
           /\ hist.firedDoc = hist.lastEdit
\* the timeout of a burst of two or more change events has fired and saved
C2_Witness ==
    /\ ev.type = "debounce" /\ ev.wrote = 1
    /\ hist.burstEdits = 2 /\ hist.burstFires = 1

\* C3 (exit flush): tearing the session down while a debounce timer is
\* pending dispatches the one write that carries the latest editor state when
\* that state is not yet the remembered last-persisted value (nothing else,
\* and nothing when it is or when serialization throws), and leaves no timer
\* behind: the cancelled timeout never fires.
C3_ExitFlush ==
    /\ [][(sess.mounted /\ ~sess'.mounted /\ sess.debounceTimerRef # 0) =>
            /\ ev'.type = "teardown" /\ ev'.attempted
            /\ timers' = {}
            /\ IF ~ev'.threw /\ Serialize(sess.editor) # sess.snapshotRef
               THEN OneWriteOf(sess, inflight, inflight')
               ELSE inflight' = inflight]_vars
    /\ [](~sess.mounted => timers = {})
\* a teardown with the debounce timer pending flushed the unsaved state
C3_Witness ==
    /\ ev.type = "teardown" /\ ev.hadTimer /\ ev.wrote = 1
    /\ ~sess.mounted /\ timers = {}

\* C4 (periodic floor): while the session is mounted its interval timer is
\* pending, whatever happens to the debounce timer, and never more than
\* IntervalMs pass without a save attempt.
C4_PeriodicFloor ==
    sess.mounted =>
        /\ hist.sinceAttempt <= IntervalMs
        /\ Cardinality(Pending(timers, "interval")) = 1
        /\ \A t \in Pending(timers, "interval") :
              t.id = sess.intervalId /\ t.left <= IntervalMs - hist.sinceAttempt
\* the interval ticked and saved while change events had kept the debounce
\* timer pending, unfired, for the whole period
C4_Witness ==
    /\ ev.type = "interval" /\ ev.floor /\ ev.wrote = 1
    /\ Pending(timers, "timeout") # {}

\* C5 (idempotent load): once initialLoadRef is set, no later run of the load
\* effect in that session calls loadSnapshot or touches the editor; a session
\* loads a stored snapshot at most once.
C5_IdempotentLoad ==
    /\ [][(sess.mounted /\ sess.initialLoadRef) =>
            /\ ~ev'.loadCalled /\ ~ev'.loaded
            /\ sess'.mounted => sess'.initialLoadRef
            /\ ev'.type = "query" => (sess' = sess /\ timers' = timers)]_vars
    /\ [](hist.loads <= 1)
\* the stored drawing changed under a session that had loaded: the effect ran
\* again and loaded nothing
C5_Witness ==
    /\ ev.type = "query" /\ ~ev.loadCalled
    /\ sess.mounted /\ sess.initialLoadRef /\ hist.loads = 1
    /\ Truthy(view) /\ view # Serialize(sess.editor)

\* the entity of that id does not exist or belongs to someone else
C6_NotOwned(table, id, caller) == id \notin DOMAIN table \/ table[id].userId # caller
\* C6 (ownership isolation): todos.updateDrawing and documents.updateDrawing
\* on an entity that does not exist or is not owned by the caller fail, and no
\* stored entity changes.
C6_OwnershipIsolation ==
    [][(/\ calls' # calls
        /\ \/ result'.op = "todos.updateDrawing"
              /\ C6_NotOwned(todos, result'.arg, result'.caller)
           \/ result'.op = "documents.updateDrawing"
              /\ C6_NotOwned(documents, result'.arg, result'.caller))
          => /\ result'.error # "none"
             /\ todos' = todos /\ documents' = documents]_vars
\* a signed-in caller was refused on another user's document, which keeps the
\* drawing its owner saved
C6_Witness ==
    /\ result.op = "documents.updateDrawing" /\ result.error = "Unauthorized"
    /\ result.caller \in Users
    /\ result.arg \in DOMAIN documents
    /\ documents[result.arg].drawing = Serialize(1)

\* C7 as stated (unauthenticated fail-fast): every operation invoked without
\* an identity fails with "Not authenticated" and changes no stored state.
C7_FailFastEveryOperation ==
    [][(calls' # calls /\ result'.caller = NoUser) =>
          /\ result'.error = "Not authenticated"
          /\ todos' = todos /\ documents' = documents
          /\ nextTodo' = nextTodo /\ nextDoc' = nextDoc]_vars
\* C7 (unauthenticated fail-fast): every operation invoked without an
\* identity changes no stored state; todos.list answers with the empty list,
\* every other operation fails with "Not authenticated".
C7_FailFast ==
    [][(calls' # calls /\ result'.caller = NoUser) =>
          /\ IF result'.op = "todos.list"
             THEN result'.error = "none" /\ result'.rows = NoRows
             ELSE result'.error = "Not authenticated"
          /\ todos' = todos /\ documents' = documents
          /\ nextTodo' = nextTodo /\ nextDoc' = nextDoc]_vars
\* the write under autosave was refused for a caller without identity, on a
\* todo that exists
C7_Witness ==
    /\ result.op = "todos.updateDrawing" /\ result.caller = NoUser
    /\ result.error = "Not authenticated"
    /\ result.arg \in DOMAIN todos

\* C8 (serialization failure): a save attempt whose serialization throws
\* dispatches no write and leaves the store, snapshotRef and the editor as
\* they were; unless the attempt was the teardown flush, the session stays
\* mounted with its listeners and its interval timer, and the next attempt
\* that serializes dispatches what the failed one would have.
C8_SerializationFailure ==
    [][ev'.threw =>
          /\ ev'.attempted /\ ev'.wrote = 0
          /\ inflight' = inflight
          /\ storeVars' = storeVars
          /\ ev'.type # "teardown" =>
                /\ sess'.mounted /\ sess'.listening
                /\ sess'.snapshotRef = sess.snapshotRef
                /\ sess'.editor = sess.editor
                /\ Pending(timers', "interval") # {}
                /\ \A t \in Pending(timers', "interval") : t.id = sess'.intervalId
                /\ SaveWrites(sess', FALSE, auth') = SaveWrites(sess, FALSE, auth)]_vars
\* after a failed attempt, with no change event since, a later attempt saved
C8_Witness ==
    /\ hist.failedNoEdit /\ ev.attempted /\ ~ev.threw /\ ev.wrote = 1
    /\ sess.mounted

\* the string is there but is not a snapshot the editor can load
Corrupt(s) == Truthy(s) /\ (s.tag # "json" \/ s.doc \notin DocStates)
\* C9 (corrupt snapshot): when the stored drawing cannot be parsed or
\* loaded, the failure stays inside the load effect: the session mounts on
\* the empty drawing (or keeps the drawing it has), with its listeners and
\* its interval timer, and the store is not touched.
C9_CorruptSnapshot ==
    /\ []((ev.type = "mount" /\ Corrupt(view)) =>
            /\ sess.mounted /\ sess.editor = 0 /\ ~ev.loaded
            /\ sess.listening
            /\ \E t \in Pending(timers, "interval") : t.id = sess.intervalId)
    /\ [][(ev'.type = "mount" \/ (ev'.type = "query" /\ Corrupt(view'))) =>
            /\ storeVars' = storeVars
            /\ inflight' = inflight
            /\ (ev'.type = "query" /\ sess.mounted) =>
                  (sess' = sess /\ timers' = timers)]_vars
\* a session whose load failed on the corrupt stored drawing has saved an edit
C9_Witness ==
    /\ Corrupt(view) /\ sess.mounted /\ ~sess.initialLoadRef
    /\ ev.attempted /\ ev.wrote = 1 /\ sess.editor # 0

\* C10 (blur): handleBlur cancels the pending debounce timer, so that no
\* timeout is left to fire, and runs the save path in the same step, with a
\* timer pending or not; the interval timer is left alone.
C10_BlurCancelsDebounce ==
    [][ev'.type = "blur" =>
          /\ ev'.attempted
          /\ Pending(timers', "timeout") = {}
          /\ sess'.debounceTimerRef = 0
          /\ Pending(timers', "interval") = Pending(timers, "interval")
          /\ ~ev'.threw =>
                /\ sess'.snapshotRef = Serialize(sess.editor)
                /\ IF Serialize(sess.editor) # sess.snapshotRef
                   THEN OneWriteOf(sess, inflight, inflight')
                   ELSE inflight' = inflight]_vars
\* a blur with the debounce timer pending saved at once
C10_Witness ==
    /\ ev.type = "blur" /\ ev.hadTimer /\ ev.wrote = 1
    /\ sess.debounceTimerRef = 0 /\ Pending(timers, "timeout") = {}

\* C11 (timer bound): an open session holds at most one debounce timeout, the
\* one debounceTimerRef names, and exactly one interval timer; a session that
\* is not mounted holds no timer.
C11_TimerBound ==
    /\ sess.mounted =>
          /\ Cardinality(Pending(timers, "timeout")) <= 1
          /\ \A t \in Pending(timers, "timeout") : t.id = sess.debounceTimerRef
          /\ Cardinality(Pending(timers, "interval")) = 1
          /\ Cardinality(timers) <= 2
    /\ ~sess.mounted => timers = {}
\* the interval has ticked in an open session whose debounce timeout is pending
C11_Witness ==
    /\ ev.type = "interval" /\ sess.mounted /\ sess.debounceTimerRef # 0
    /\ Cardinality(timers) = 2

\* C12 (first save writes): a session starts with snapshotRef = null, whatever
\* earlier sessions did and whatever it loads, and its first successful
\* serialization is dispatched as a write, also when it equals the stored
\* snapshot the session loaded.
C12_FirstSaveWrites ==
    /\ [][ev'.type = "mount" =>
            (sess'.mounted /\ sess'.snapshotRef = Null)]_vars
    /\ [][(ev'.attempted /\ ~ev'.threw /\ sess.snapshotRef = Null) =>
            /\ OneWriteOf(sess, inflight, inflight')
            /\ ev'.first /\ ev'.wrote = 1]_vars
    /\ []((ev.first /\ ~ev.threw) => ev.wrote = 1)
\* the first save of a session that loaded the stored snapshot dispatched that
\* very snapshot
C12_Witness ==
    /\ ev.first /\ ev.wrote = 1 /\ sess.mounted /\ sess.initialLoadRef
    /\ sess.snapshotRef = Stored(sess.kind, sess.id)
    /\ hist.loads = 1 /\ hist.writesNoEdit = 1

\* C13 as stated (failed writes are retried): after the dispatched write for
\* the current drawing state has failed, the next save attempt dispatches a
\* write for that state again.
C13_RetriedByNextTrigger ==
    [][(/\ sess.mounted /\ hist.failed = Serialize(sess.editor)
        /\ ev'.attempted /\ ~ev'.threw)
          => OneWriteOf(sess, inflight, inflight')]_vars
\* C13 (after a failed write): the failed write is the one snapshotRef
\* remembers, so the next trigger runs the save path and compares as ever: it
\* dispatches a write when the editor state has changed to another serialized
\* snapshot, and nothing for the state whose write failed.
C13_NextTriggerCompares ==
    /\ []((sess.mounted /\ hist.failed # Null) => hist.failed = sess.snapshotRef)
    /\ [][(sess.mounted /\ hist.failed # Null /\ ev'.attempted /\ ~ev'.threw) =>
            IF Serialize(sess.editor) # hist.failed
            THEN OneWriteOf(sess, inflight, inflight') /\ hist'.failed = Null
            ELSE inflight' = inflight /\ ev'.wrote = 0]_vars
\* the write of the current state failed, an attempt came after it and sent
\* nothing: the store does not hold that state and no call is in flight
C13_Witness ==
    /\ sess.mounted /\ hist.failed = Serialize(sess.editor)
    /\ ev.attempted /\ ~ev.threw /\ ev.wrote = 0
    /\ inflight = EmptyBag
    /\ Stored(sess.kind, sess.id) # hist.failed

\* C14 (no retry without a new edit): once the dispatched write for the
\* current editor state has failed, no step of the session (interval tick,
\* blur, debounce, teardown) dispatches another write while the editor state
\* stays the same, the failure stays unrepaired, and with nothing in flight
\* the store keeps its stale drawing.
C14_NoRetryWithoutEdit ==
    [][(sess.mounted /\ hist.failed = Serialize(sess.editor)) =>
          /\ (~sess'.mounted \/ sess'.editor = sess.editor) =>
                /\ BagCardinality(inflight') <= BagCardinality(inflight)
                /\ ev'.wrote = 0
          /\ (sess'.mounted /\ sess'.editor = sess.editor) =>
                (hist'.failed = hist.failed /\ sess'.snapshotRef = sess.snapshotRef)
          /\ inflight = EmptyBag => (todos' = todos /\ documents' = documents)]_vars
\* the teardown flush came after the failed write of the unchanged state and
\* sent nothing; the store is left without that state
C14_Witness ==
    /\ ev.type = "teardown" /\ ~ev.threw /\ ev.wrote = 0
    /\ hist.failed # Null /\ ~sess.mounted
    /\ inflight = EmptyBag
    /\ Stored(sess.kind, sess.id) # hist.failed

\* C15 as stated (no write without an owner): whenever a drawing session
\* dispatches updateDrawing, the client is signed in and the call carries an
\* identity; nothing is dispatched once the identity is gone.  (Signing out
\* is what unmounts the session: the identity is gone before the cleanup
\* runs its final saveDrawing().)
C15_WritesHaveOwner ==
    [][BagCardinality(inflight') > BagCardinality(inflight) =>
          /\ auth' # NoUser
          /\ \A w \in BagToSet(inflight') : w.caller # NoUser]_vars

\* C16 (snapshot lifecycle): a created entity has no drawing; the drawing of
\* an existing entity changes only in a successful updateDrawing on that
\* entity (documents.update, updateText, updateDescription, toggleComplete and
\* moveToNextDay leave it alone); an entity, and its drawing with it,
\* disappears only in a successful remove of that entity.
C16_SnapshotLifecycle ==
    [][/\ \A id \in DOMAIN todos' :
            IF id \notin DOMAIN todos
            THEN todos'[id].drawing = Undefined /\ result'.op = "todos.add"
            ELSE todos'[id].drawing # todos[id].drawing =>
                    /\ result'.op = "todos.updateDrawing"
                    /\ result'.error = "none" /\ result'.arg = id
       /\ \A id \in DOMAIN todos \ DOMAIN todos' :
            result'.op = "todos.remove" /\ result'.error = "none" /\ result'.arg = id
       /\ \A id \in DOMAIN documents' :
            IF id \notin DOMAIN documents
            THEN documents'[id].drawing = Undefined /\ result'.op = "documents.create"
            ELSE documents'[id].drawing # documents[id].drawing =>
                    /\ result'.op = "documents.updateDrawing"
                    /\ result'.error = "none" /\ result'.arg = id
       /\ \A id \in DOMAIN documents \ DOMAIN documents' :
            result'.op = "documents.remove" /\ result'.error = "none"
            /\ result'.arg = id]_vars
\* documents.update went through on a document that holds a drawing, and the
\* drawing is still there
C16_Witness ==
    /\ result.op = "documents.update" /\ result.error = "none"
    /\ result.arg \in DOMAIN documents
    /\ documents[result.arg].drawing = Serialize(1)
    /\ documents[result.arg].title = "a"

\* C18 (owner immutability): no step changes the userId of an entity that
\* exists before and after it.
C18_OwnerImmutable ==
    [][/\ \A id \in DOMAIN todos \cap DOMAIN todos' :
            todos'[id].userId = todos[id].userId
       /\ \A id \in DOMAIN documents \cap DOMAIN documents' :
            documents'[id].userId = documents[id].userId]_vars
\* the owner saved a drawing into a document; the document is still the
\* owner's
C18_Witness ==
    /\ result.op = "documents.updateDrawing" /\ result.error = "none"
    /\ result.arg \in DOMAIN documents
    /\ documents[result.arg].userId = result.caller
    /\ documents[result.arg].drawing # Undefined

\* C19 (read isolation): every row a query returns belongs to the caller;
\* documents.get on another user's document fails and returns nothing; a call
\* that fails returns no row.
C19_ReadIsolation ==
    /\ \A id \in DOMAIN result.rows : result.rows[id].userId = result.caller
    /\ (/\ result.op = "documents.get"
        /\ result.arg \in DOMAIN documents
        /\ documents[result.arg].userId # result.caller)
          => (result.error # "none" /\ result.rows = NoRows)
    /\ result.error # "none" => result.rows = NoRows
\* documents.get by a signed-in user on another user's document, which holds
\* a drawing, was refused
C19_Witness ==
    /\ result.op = "documents.get" /\ result.error = "Unauthorized"
    /\ result.caller \in Users
    /\ result.arg \in DOMAIN documents
    /\ documents[result.arg].drawing = Serialize(1)

\* the step executed or dropped exactly the dispatched call w
Completed(w) == w \in BagToSet(inflight) /\ inflight' = inflight (-) SetToBag({w})
\* C17 (stored snapshot integrity): the stored drawing changes only when the
\* store accepts a dispatched updateDrawing call, which the owner issued, and
\* then becomes exactly the payload of that call; a rejected or lost call
\* leaves it alone.  So the stored drawing always is the payload of the most
\* recently accepted write (or what the entity held before any).
C17_StoredIntegrity ==
    /\ [](Stored(sess.kind, sess.id) = hist.accepted)
    /\ [][(todos' # todos \/ documents' # documents) =>
            /\ ev'.type = "deliver" /\ result'.error = "none"
            /\ \E w \in BagToSet(inflight) :
                  /\ Completed(w)
                  /\ w.caller \in Users
                  /\ Stored(w.kind, w.id)' = w.drawing
                  /\ hist'.accepted = w.drawing]_vars
    /\ [][(ev'.type = "deliver" /\ result'.error # "none") =>
            (todos' = todos /\ documents' = documents)]_vars
\* the store accepted a write of the session and holds its payload, while
\* another write is still in flight
C17_Witness ==
    /\ ev.type = "deliver" /\ result.error = "none"
    /\ Stored(sess.kind, sess.id) = Serialize(0)
    /\ hist.accepted = Serialize(0)
    /\ inflight # EmptyBag

\* C20 (issuance ordering): a session issues one write at a time, in a save
\* attempt, and the write carries the editor state of that moment, which the
\* session then remembers as last persisted: writes are issued in the order
\* of the states they carry.  The store may complete them in another order.
C20_IssuanceOrdering ==
    [][BagCardinality(inflight') > BagCardinality(inflight) =>
          /\ ev'.attempted /\ ev'.wrote = 1
          /\ OneWriteOf(sess, inflight, inflight')
          /\ sess'.mounted =>
                /\ sess'.editor = sess.editor
                /\ sess'.snapshotRef = Serialize(sess.editor)]_vars
\* the store has executed the write issued last while a write issued before
\* it, with another state, is still in flight
C20_Witness ==
    /\ ev.type = "deliver" /\ result.error = "none" /\ sess.mounted
    /\ Stored(sess.kind, sess.id) = sess.snapshotRef
    /\ BagCardinality(inflight) = 1
    /\ \A w \in BagToSet(inflight) : w.drawing # sess.snapshotRef

(***************************************************************************)
(* C21.  Fire-and-forget dispatch.  While a call of the open session is    *)
(* unconfirmed, the change event and the four save triggers (debounce      *)
(* timer, periodic timer, blur, teardown) stay enabled, with a failing and *)
(* with a succeeding serialization; the debounce timer only has to be      *)
(* pending.  Only the bound on calls in flight is excepted.  Every call   *)
(* in flight can complete or fail at any moment, in any order.             *)
(***************************************************************************)
C21_FireAndForget ==
    /\ sess.mounted /\ inflight # EmptyBag /\ BagCardinality(inflight) < MaxInflight
        => /\ \A d \in DocStates : ENABLED Edit(d)
           /\ \A throws \in BOOLEAN :
                /\ ENABLED Blur(throws)
                /\ ENABLED IntervalFire(throws)
                /\ ENABLED Unmount(throws)
                /\ Due(timers, "timeout") # {} => ENABLED DebounceFire(throws)
    /\ sess.mounted /\ inflight # EmptyBag
        => \A w \in BagToSet(inflight) : ENABLED Deliver(w) /\ ENABLED Lose(w)

\* two calls of the open session are in flight: the second one was dispatched
\* by the last step, before the first one completed
C21_Witness ==
    /\ sess.mounted /\ hist.intact
    /\ ev.attempted /\ ev.wrote = 1 /\ ~ev.first
    /\ BagCardinality(inflight) = 2
    /\ \E w \in BagToSet(inflight) : w.drawing # sess.snapshotRef

(***************************************************************************)
(* C22.  Optimistic remember.  The step of a save attempt that dispatches  *)
(* a call sets snapshotRef to the payload of that call, the serialized     *)
(* editor state, while the call is still in flight; no completion of a     *)
(* call, accepted, rejected or lost, changes the session afterwards.       *)
(***************************************************************************)
C22_OptimisticRemember ==
    /\ [][(ev'.attempted /\ ev'.wrote = 1 /\ sess'.mounted) =>
             /\ OneWriteOf(sess, inflight, inflight')
             /\ sess'.snapshotRef = Serialize(sess.editor)
             /\ \E w \in BagToSet(inflight') : w.drawing = sess'.snapshotRef]_vars
    /\ [][ev'.type \in {"deliver", "lose"} =>
             (sess' = sess /\ timers' = timers)]_vars

\* the call that carried the remembered snapshot has just failed; snapshotRef
\* still holds its payload, which the store does not have
C22_Witness ==
    /\ ev.type = "lose" /\ sess.mounted
    /\ sess.snapshotRef # Null /\ hist.failed = sess.snapshotRef
    /\ Stored(sess.kind, sess.id) # sess.snapshotRef

(***************************************************************************)
(* C23.  Frame of a successful write.  A call of updateDrawing that        *)
(* succeeds leaves every other row of both tables as it was, adds and      *)
(* removes no row, and changes of the row it names only the drawing (in a  *)
(* todo) or only the drawing and updatedAt, set to the time of the call    *)
(* (in a document).                                                        *)
(***************************************************************************)
C23_WriteFrame ==
    [][(calls' # calls /\ result'.error = "none") =>
          /\ result'.op = "todos.updateDrawing" =>
                /\ result'.arg \in DOMAIN todos /\ DOMAIN todos' = DOMAIN todos
                /\ \A i \in DOMAIN todos \ {result'.arg} : todos'[i] = todos[i]
                /\ todos'[result'.arg] =
                      [todos[result'.arg] EXCEPT !.drawing = todos'[result'.arg].drawing]
                /\ documents' = documents
                /\ nextTodo' = nextTodo /\ nextDoc' = nextDoc /\ now' = now
          /\ result'.op = "documents.updateDrawing" =>
                /\ result'.arg \in DOMAIN documents /\ DOMAIN documents' = DOMAIN documents
                /\ \A i \in DOMAIN documents \ {result'.arg} : documents'[i] = documents[i]
                /\ documents'[result'.arg] =
                      [documents[result'.arg] EXCEPT
                         !.drawing = documents'[result'.arg].drawing, !.updatedAt = now]
                /\ todos' = todos
                /\ nextTodo' = nextTodo /\ nextDoc' = nextDoc /\ now' = now]_vars

\* a drawing was saved into one of two rows of the same owner, after the
\* other fields of the row had been given values of their own: into a todo
\* with a description, or into a document some time after it was created
C23_Witness ==
    /\ result.error = "none"
    /\ \/ /\ result.op = "todos.updateDrawing"
          /\ todos[result.arg].description # "" /\ todos[result.arg].drawing # Undefined
       \/ /\ result.op = "documents.updateDrawing"
          /\ Cardinality(DOMAIN documents) = 2
          /\ documents[result.arg].updatedAt > documents[result.arg].createdAt
          /\ \E i \in DOMAIN documents \ {result.arg} :
                documents[i].userId = result.caller /\ documents[i].drawing = Undefined

(***************************************************************************)
(* C24.  Only the debounce timer is cancellable.  A change event, a blur   *)
(* and a firing of the debounce timer leave the periodic timer as it is:   *)
(* same handle, same time left.  The periodic timer of an open session is  *)
(* always pending, goes away only in the teardown, and each of its ticks   *)
(* runs the save path (writing whenever the serialized state differs from  *)
(* snapshotRef) and arms it for a full period again.                       *)
(***************************************************************************)
C24_PeriodicNotCancelled ==
    /\ [](sess.mounted => \E t \in Pending(timers, "interval") :
                              Pending(timers, "interval") = {t} /\ t.id = sess.intervalId)
    /\ [][ev'.type \in {"edit", "blur", "debounce", "query", "deliver"} =>
             Pending(timers', "interval") = Pending(timers, "interval")]_vars
    /\ [][(Pending(timers, "interval") # {} /\ Pending(timers', "interval") = {}) =>
             (ev'.type = "teardown" /\ sess.mounted /\ ~sess'.mounted)]_vars
    /\ [][ev'.type = "interval" =>
             /\ ev'.attempted
             /\ ~ev'.threw => sess'.snapshotRef = Serialize(sess.editor)
             /\ (~ev'.threw /\ Serialize(sess.editor) # sess.snapshotRef) => ev'.wrote = 1
             /\ \E t \in Due(timers, "interval") :
                   Pending(timers', "interval") = {[t EXCEPT !.left = IntervalMs]}]_vars

\* a change event re-armed the debounce timer of a burst while the periodic
\* timer was part of the way through its period
C24_Witness ==
    /\ sess.mounted /\ ev.type = "edit" /\ hist.burstEdits = 2
    /\ \E t \in Pending(timers, "interval") : 0 < t.left /\ t.left < IntervalMs
    /\ \E t \in Pending(timers, "timeout") : t.left = DebounceMs

(***************************************************************************)
(* C25 as stated (hydration never overwrites newer edits).  Once the open  *)
(* session has dispatched a write (snapshotRef is set), no later step      *)
(* loads a snapshot into its editor; so a session that was opened on an    *)
(* entity without a usable snapshot is not hydrated from what its own      *)
(* autosave stored.                                                        *)
(***************************************************************************)
C25_NoLateHydration ==
    [][(sess.mounted /\ sess.snapshotRef # Null) =>
          (~ev'.loaded /\ (ev'.type = "query" => sess'.editor = sess.editor))]_vars

(***************************************************************************)
(* C26.  Eventual save.  Whenever the editor of an open session holds a    *)
(* state whose serialization is not the one in snapshotRef, then, timers   *)
(* firing fairly and serialization succeeding, a step follows after which  *)
(* snapshotRef is the serialization of the editor state (a save attempt    *)
(* has dispatched it, or a change has brought the editor back to what was  *)
(* dispatched last), or the teardown has run and has dispatched its flush  *)
(* unless its serialization failed.                                        *)
(***************************************************************************)
C26_EventualSave ==
    (sess.mounted /\ Serialize(sess.editor) # sess.snapshotRef)
        ~> \/ sess.mounted /\ Serialize(sess.editor) = sess.snapshotRef
           \/ ~sess.mounted /\ ev.type = "teardown" /\ (ev.threw \/ ev.wrote = 1)

\* after a change the periodic tick came before the debounce timer fired
\* and dispatched the changed state
C26_Witness ==
    /\ sess.mounted /\ ev.type = "interval" /\ ev.wrote = 1 /\ ~ev.first
    /\ sess.debounceTimerRef # 0 /\ Pending(timers, "timeout") # {}
    /\ sess.snapshotRef = Serialize(sess.editor)
    /\ \E w \in BagToSet(inflight) : w.drawing = sess.snapshotRef

(***************************************************************************)
(* C27.  Quiescent teardown.  With the session torn down no timer of it is *)
(* pending and no listener of it is attached, and until a new session is   *)
(* mounted no step makes a save attempt or puts a call in flight, whatever *)
(* else happens (calls completing or failing, query updates, sign-out).    *)
(***************************************************************************)
C27_QuiescentTeardown ==
    /\ [](~sess.mounted => (timers = {} /\ ~sess.listening /\ sess.debounceTimerRef = 0))
    /\ [][~sess.mounted =>
             /\ ~ev'.attempted /\ ev'.wrote = 0
             /\ BagCardinality(inflight') <= BagCardinality(inflight)
             /\ ~sess'.mounted => sess' = sess]_vars

\* the session was torn down after it had written; its last call has been
\* executed and the query has pushed the stored drawing, with no session open
C27_Witness ==
    /\ ~sess.mounted /\ hist.writesNoEdit >= 1
    /\ ev.type = "query" /\ inflight = EmptyBag
    /\ view = Stored(sess.kind, sess.id) /\ view # Undefined

(***************************************************************************)
(* C28 as stated (convergence after quiescence).  When every call the open *)
(* session has dispatched has been executed and accepted (none in flight,  *)
(* none failed, none of an earlier session involved), the stored drawing   *)
(* of the entity is the payload of the call dispatched last, which is what *)
(* snapshotRef holds, whatever the order in which the calls completed.     *)
(***************************************************************************)
C28_Convergence ==
    (sess.mounted /\ hist.intact /\ sess.snapshotRef # Null /\ inflight = EmptyBag)
        => Stored(sess.kind, sess.id) = sess.snapshotRef

(***************************************************************************)
(* C29.  Last-persisted tracks dispatches.  snapshotRef is null when the   *)
(* session is mounted and when there is none; a step of the open session   *)
(* changes it only if it is a save attempt that dispatches a call, and     *)
(* then to the payload of that call.  Hence it is null as long as the      *)
(* session has dispatched nothing and the payload of the call dispatched   *)
(* last afterwards; loads, change events, failed serializations, save      *)
(* attempts that write nothing and completions of calls leave it alone.    *)
(***************************************************************************)
C29_LastPersistedTracksDispatches ==
    /\ [](~sess.mounted => sess.snapshotRef = Null)
    /\ [][ev'.type = "mount" => (sess'.mounted /\ sess'.snapshotRef = Null)]_vars
    /\ [][(sess.mounted /\ sess'.mounted) =>
             IF ev'.attempted /\ ev'.wrote = 1
             THEN \E w \in BagToSet(inflight') :
                     /\ inflight' = inflight (+) SetToBag({w})
                     /\ sess'.snapshotRef = w.drawing
             ELSE /\ sess'.snapshotRef = sess.snapshotRef
                  /\ \A w \in BagToSet(inflight') :
                        CopiesIn(w, inflight') <= CopiesIn(w, inflight)]_vars

\* after a dispatch and a change the serialization of a save attempt failed,
\* while the dispatched call is still in flight: snapshotRef holds its payload
C29_Witness ==
    /\ sess.mounted /\ ev.attempted /\ ev.threw
    /\ sess.snapshotRef # Null /\ Serialize(sess.editor) # sess.snapshotRef
    /\ hist.intact /\ BagCardinality(inflight) = 1
    /\ \A w \in BagToSet(inflight) : w.drawing = sess.snapshotRef
====
